---- MODULE Spec2Model ----
(***************************************************************************)
(* A model of the Sequelize adapter of admin-bro: the filter translator    *)
(* (src/utils/convert-filter.js), the parameter normalizer                 *)
(* (Resource.parseParams) and the resource operations that use them        *)
(* (Resource.find / count / create / update / delete).                     *)
(*                                                                         *)
(* Strings whose characters matter (filter values) are sequences of        *)
(* one-character strings; JavaScript objects are functions from keys to    *)
(* values; the Symbol key Op.and is the key OpAnd, which is no property    *)
(* name.                                                                   *)
(***************************************************************************)
EXTENDS Integers, Sequences, FiniteSets, TLC

VARIABLES
  \* ---- convertFilter called on a filter (SpecFilter)
  filterGiven,   \* FALSE: convertFilter(undefined)
  filter,        \* the filter's clauses, in the order reduce visits them
  where,         \* the condition convertFilter returned
  fpc,           \* "build" | "done" ("idle" where convertFilter is not called)
  \* ---- one string clause run against one column value (SpecLike)
  likeValue,     \* the clause's value
  likeColumn,    \* the column's text in the row the storage looks at
  likeWhere,     \* the condition convertFilter returned for the clause
  likeMatch,     \* whether the storage selected the row
  lpc,           \* "input" | "converted" | "matched" ("idle" where unused)
  \* ---- a Resource over a SequelizeModel and the call it is serving (Spec)
  rawAttributes, \* the model's attributes, in the order of Object.keys
  store,         \* the table: primary key -> row
  pc,            \* where the call is: "idle", an await, or "done"
  op,            \* the method called
  argId,         \* update's id
  argParams,     \* the caller's params object, as it is now
  givenParams,   \* the params as the caller passed them
  argFilter,     \* find's and count's filter
  argSortBy,     \* find's sort.sortBy
  issued,        \* the storage calls this call has made, in order
  storageError,  \* the failure the storage reported to this call, if any
  existed,       \* whether update's record existed when update was called
  interfered,    \* another request wrote update's record while update was under way
  result         \* what the call returned or threw

filterVars == <<filterGiven, filter, where, fpc>>
likeVars == <<likeValue, likeColumn, likeWhere, likeMatch, lpc>>
callVars == <<pc, op, argId, argParams, givenParams, argFilter, argSortBy, issued,
              storageError, existed, interfered, result>>
resourceVars == <<rawAttributes, store, callVars>>
vars == <<filterVars, likeVars, resourceVars>>

\* ------------------------------------------------------------------ bounds

\* the longest number-clause value, in characters
MaxLen == 2
\* the most clauses of one filter
MaxClauses == 2
\* the longest string-clause value of SpecLike
MaxValueLen == 2
\* the longest column text of SpecLike
MaxColumnLen == 2

RECURSIVE SeqsUpTo(_, _)
SeqsUpTo(S, n) ==
  IF n = 0 THEN {<<>>}
  ELSE LET shorter == SeqsUpTo(S, n - 1)
       IN  shorter \cup {Append(s, c) : s \in {t \in shorter : Len(t) = n - 1}, c \in S}

\* ------------------------------------------------------- JavaScript values

EmptyObject == [k \in {} |-> TRUE]

\* { [key]: value, ...memo }: the spread comes last, so an entry of memo
\* under the same key replaces the one written before it
SpreadAfter(key, value, memo) ==
  [k \in DOMAIN memo \cup {key} |-> IF k \in DOMAIN memo THEN memo[k] ELSE value]

\* a bound the value object does not hold (value.from of {} is undefined)
Undefined == "undefined"
\* what `a || b` and `a && b` take for true, of the values a bound may hold
Truthy(x) == x \notin {Undefined, ""}

\* ---- Number(value), on strings over NumAlphabet
NumAlphabet == {"4", "2", "a", "-", " "}
Digits == {"4", "2"}
DigitVal(c) == IF c = "4" THEN 4 ELSE 2

RECURSIVE TrimStart(_)
TrimStart(s) == IF s # <<>> /\ Head(s) = " " THEN TrimStart(Tail(s)) ELSE s

RECURSIVE TrimEnd(_)
TrimEnd(s) ==
  IF s # <<>> /\ s[Len(s)] = " " THEN TrimEnd(SubSeq(s, 1, Len(s) - 1)) ELSE s

IsDigits(s) == s # <<>> /\ \A i \in 1..Len(s) : s[i] \in Digits

RECURSIVE DecimalValue(_)
DecimalValue(s) ==
  IF s = <<>> THEN 0
  ELSE 10 * DecimalValue(SubSeq(s, 1, Len(s) - 1)) + DigitVal(s[Len(s)])

NaN == [nan |-> TRUE, num |-> 0]

\* Number(string): white space is trimmed, the empty string is 0, an
\* optionally signed run of digits is its value, anything else is NaN
Number(value) ==
  LET t == TrimEnd(TrimStart(value))
  IN  IF t = <<>> THEN [nan |-> FALSE, num |-> 0]
      ELSE IF Head(t) = "-"
        THEN IF IsDigits(Tail(t))
               THEN [nan |-> FALSE, num |-> 0 - DecimalValue(Tail(t))]
               ELSE NaN
        ELSE IF IsDigits(t) THEN [nan |-> FALSE, num |-> DecimalValue(t)] ELSE NaN

NumberIsNaN(n) == n.nan

\* ---- escape(value) of the escape-regexp package
RegexpSpecial ==
  {".", "*", "+", "?", "=", "^", "!", ":", "$", "{", "}", "(", ")", "|", "[", "]", "/", "\\"}

RECURSIVE escape(_)
escape(s) ==
  IF s = <<>> THEN <<>>
  ELSE (IF Head(s) \in RegexpSpecial THEN <<"\\", Head(s)>> ELSE <<Head(s)>>)
         \o escape(Tail(s))

\* ------------------------------------------------------------ convertFilter

OpAnd == "Symbol(and)"

\* where(fn('LOWER', col(name)), { [Op.like]: fn('LOWER', pattern) })
LowerLike(name, pattern) ==
  [kind |-> "where", fn |-> "LOWER", col |-> name,
   like |-> [fn |-> "LOWER", arg |-> pattern]]

\* { ...value.from && { [Op.gte]: value.from }, ...value.to && { [Op.lte]: value.to } }
RangeOf(value) ==
  [k \in (IF Truthy(value.from) THEN {"gte"} ELSE {})
           \cup (IF Truthy(value.to) THEN {"lte"} ELSE {})
     |-> IF k = "gte" THEN value.from ELSE value.to]

\* case 'number' with the isNaN test left out
numberCaseNoNaNTest(memo, name, value) ==
  SpreadAfter(name, [kind |-> "number", num |-> Number(value).num], memo)

\* case 'number'
numberCase(memo, name, value) ==
  IF ~NumberIsNaN(Number(value))
    THEN SpreadAfter(name, [kind |-> "number", num |-> Number(value).num], memo)
    ELSE memo

\* the callback of filter.reduce: one clause folded into memo
reducer(memo, filterProperty) ==
  LET property == filterProperty.property
      value == filterProperty.value
      fallthrough ==
        SpreadAfter(property.name, [kind |-> "value", value |-> value], memo)
  IN  CASE property.type = "string" ->
             SpreadAfter(OpAnd,
                         [kind |-> "and",
                          preds |-> <<LowerLike(property.name,
                                                <<"%">> \o escape(value) \o <<"%">>)>>],
                         memo)
        [] property.type = "number" -> numberCase(memo, property.name, value)
        [] property.type \in {"date", "datetime"} ->
             IF Truthy(value.from) \/ Truthy(value.to)
               THEN SpreadAfter(property.name,
                                [kind |-> "range", range |-> RangeOf(value)], memo)
               ELSE fallthrough
        [] OTHER -> fallthrough

RECURSIVE reduce(_, _)
reduce(memo, clauses) ==
  IF clauses = <<>> THEN memo
  ELSE reduce(reducer(memo, Head(clauses)), Tail(clauses))

convertFilter(given, clauses) ==
  IF ~given THEN EmptyObject ELSE reduce(EmptyObject, clauses)

\* ------------------------------------------- the storage's LOWER and LIKE

LikeAlphabet == {"a", "A", ".", "_", "%", "\\"}

LowerChar(c) == IF c = "A" THEN "a" ELSE c
LOWER(s) == [i \in 1..Len(s) |-> LowerChar(s[i])]

\* text LIKE pattern: % is any run of characters, _ any one character, and a
\* backslash takes the character after it literally
RECURSIVE Like(_, _)
Like(text, pattern) ==
  IF pattern = <<>> THEN text = <<>>
  ELSE IF Head(pattern) = "%"
    THEN Like(text, Tail(pattern)) \/ (text # <<>> /\ Like(Tail(text), pattern))
  ELSE IF Head(pattern) = "_"
    THEN text # <<>> /\ Like(Tail(text), Tail(pattern))
  ELSE IF Head(pattern) = "\\" /\ Len(pattern) >= 2
    THEN /\ text # <<>>
         /\ Head(text) = pattern[2]
         /\ Like(Tail(text), Tail(Tail(pattern)))
  ELSE text # <<>> /\ Head(text) = Head(pattern) /\ Like(Tail(text), Tail(pattern))

\* the row's column satisfies where(fn('LOWER', col), { [Op.like]: fn('LOWER', p) })
SatisfiesLowerLike(pred, text) == Like(LOWER(text), LOWER(pred.like.arg))

\* String.prototype.includes
Includes(text, part) ==
  \E i \in 0..(Len(text) - Len(part)) : SubSeq(text, i + 1, i + Len(part)) = part

\* ------------------------------------------------------------ the Resource

\* how many rows the table holds at most
MaxRows == 2

\* a value that is not there (params[key] of a missing key)
undefined == <<"undefined">>
\* a column without a value, and the time the storage stamps a row with
Null == <<"null">>
Now == <<"now">>

SEQUELIZE_VALIDATION_ERROR == "SequelizeValidationError"

\* SequelizeModel.name
ModelName == "Post"

\* one attribute of the model, with what its Property answers:
\* name(), type(), isEditable(), and whether its DataType is VIRTUAL
Attribute(name, type, isEditable, isVirtual) ==
  [name |-> name, type |-> type, isEditable |-> isEditable, isVirtual |-> isVirtual]

\* the models a Resource is built over: a generated primary key, a string
\* column, a numeric foreign key, a generated time stamp, a computed field
Schemas ==
  { << Attribute("id", "number", FALSE, FALSE),
       Attribute("title", "string", TRUE, FALSE),
       Attribute("userId", type, TRUE, FALSE),
       Attribute("createdAt", "datetime", FALSE, FALSE),
       Attribute("name", "string", TRUE, TRUE) >> : type \in {"number", "float", "reference"} }

\* Resource.properties()
properties == rawAttributes

AttributeNames == {rawAttributes[i].name : i \in 1..Len(rawAttributes)}
AttributeOf(name) == CHOOSE a \in {rawAttributes[i] : i \in 1..Len(rawAttributes)} : a.name = name

\* ---- parseParams

Get(object, key) == IF key \in DOMAIN object THEN object[key] ELSE undefined
Delete(object, key) == [k \in DOMAIN object \ {key} |-> object[k]]

EmptiableTypes == {"number", "float", "reference"}

\* the forEach callback without the isEditable test
forEachPropertyKeepsReadOnly(parsedParams, property) ==
  IF property.type \in EmptiableTypes /\ Get(parsedParams, property.name) = <<>>
    THEN Delete(parsedParams, property.name)
    ELSE parsedParams

\* the forEach callback without the empty-string test
forEachPropertyKeepsEmpty(parsedParams, property) ==
  IF ~property.isEditable THEN Delete(parsedParams, property.name) ELSE parsedParams

\* the forEach callback: what one property does to parsedParams
forEachProperty(parsedParams, property) ==
  LET value == Get(parsedParams, property.name)
      afterEmpty ==
        IF property.type \in EmptiableTypes /\ value = <<>>
          THEN Delete(parsedParams, property.name)
          ELSE parsedParams
  IN  IF ~property.isEditable THEN Delete(afterEmpty, property.name) ELSE afterEmpty

RECURSIVE forEach(_, _)
forEach(props, parsedParams) ==
  IF props = <<>> THEN parsedParams
  ELSE forEach(Tail(props), forEachProperty(parsedParams, Head(props)))

\* parseParams working on the caller's object instead of a copy of it
parseParamsInPlace(params) ==
  [params |-> forEach(properties, params), parsedParams |-> forEach(properties, params)]

\* parseParams: the caller's object after the call, and the object returned
parseParams(params) ==
  [params |-> params, parsedParams |-> forEach(properties, params)]

\* ---- errors

NoError == [name |-> "none", errors |-> {}]
ConnectionError == [name |-> "SequelizeConnectionError", errors |-> {}]
TypeError == [name |-> "TypeError", errors |-> {}]

\* a ValidationError with one message for each field the storage rejected
createValidationError(error) ==
  [name |-> "ValidationError",
   propertyErrors |-> [field \in error.errors |-> [message |-> "invalid"]]]

\* the catch block translating every error
rethrowAllTranslated(error) == createValidationError(error)

\* the catch block of create and update: what it throws for what it caught
rethrow(error) ==
  IF error.name = SEQUELIZE_VALIDATION_ERROR THEN createValidationError(error) ELSE error

Threw(error) == [status |-> "threw", value |-> error]
Returned(value) == [status |-> "returned", value |-> value]
NoResult == [status |-> "none", value |-> NoError]

\* ---- the storage: SequelizeModel

\* the columns create and update write from the values they are given
WritableColumns == {"title", "userId", "createdAt"}
NumericColumns == {"id", "userId"}

\* the database reads the text as a number
ParsesAsNumber(v) == v # <<>> /\ ~NumberIsNaN(Number(v))

\* the fields the model's validators reject (title: notEmpty)
InvalidFields(values) ==
  IF "title" \in DOMAIN values /\ values["title"] = <<>> THEN {"title"} ELSE {}

\* the numeric columns the database cannot parse the given text for
UnparsableFields(values) ==
  {k \in NumericColumns \cap DOMAIN values : ~ParsesAsNumber(values[k])}

\* the ways a write of the values fails: always for want of a connection, with
\* a validation error for what the validators reject, and else with a
\* database error for a numeric column whose text is no number
WriteFailures(values) ==
  {ConnectionError}
    \cup (IF InvalidFields(values) # {}
            THEN {[name |-> SEQUELIZE_VALIDATION_ERROR, errors |-> InvalidFields(values)]}
            ELSE IF UnparsableFields(values) # {}
              THEN {[name |-> "SequelizeDatabaseError", errors |-> UnparsableFields(values)]}
              ELSE {})

WriteAccepted(values) == InvalidFields(values) = {} /\ UnparsableFields(values) = {}

FreeId == CHOOSE i \in (1..MaxRows) \ DOMAIN store :
            \A j \in (1..MaxRows) \ DOMAIN store : i <= j

\* the row an insert of the values makes
InsertedRow(id, values) ==
  [id |-> id,
   title |-> IF "title" \in DOMAIN values THEN values["title"] ELSE Null,
   userId |-> IF "userId" \in DOMAIN values THEN values["userId"] ELSE Null,
   createdAt |-> IF "createdAt" \in DOMAIN values THEN values["createdAt"] ELSE Now]

\* the row an update with the values leaves
UpdatedRow(row, values) ==
  [id |-> row.id,
   title |-> IF "title" \in DOMAIN values THEN values["title"] ELSE row.title,
   userId |-> IF "userId" \in DOMAIN values THEN values["userId"] ELSE row.userId,
   createdAt |-> IF "createdAt" \in DOMAIN values THEN values["createdAt"] ELSE row.createdAt]

\* Model.update(values, { where: { [primaryKeyField]: id } })
StoreAfterUpdate(id, values) ==
  [i \in DOMAIN store |-> IF i = id THEN UpdatedRow(store[i], values) ELSE store[i]]

\* the row satisfies the condition
Matches(condition, row) ==
  \A k \in DOMAIN condition :
    IF k = OpAnd
      THEN \A j \in DOMAIN condition[k].preds :
             LET pred == condition[k].preds[j]
             IN  row[pred.col] # Null /\ SatisfiesLowerLike(pred, row[pred.col])
      ELSE CASE condition[k].kind = "number" ->
                  /\ row[k] # Null
                  /\ ParsesAsNumber(row[k])
                  /\ Number(row[k]).num = condition[k].num
             [] condition[k].kind = "value" -> row[k] = condition[k].value

Selected(condition) == {store[i] : i \in {j \in DOMAIN store : Matches(condition, store[j])}}

\* ---- what the callers pass

ParamKeys == {"id", "title", "userId", "extra"}
ParamValues(key) ==
  CASE key = "id" -> {<<>>, <<"4">>}
    [] key = "title" -> {<<>>, <<"a">>}
    [] key = "userId" -> {<<>>, <<"4">>, <<"a">>}
    [] OTHER -> {<<"a">>}

ParamsSet ==
  UNION { {f \in [K -> {<<>>, <<"4">>, <<"a">>}] : \A k \in K : f[k] \in ParamValues(k)}
          : K \in SUBSET ParamKeys }

\* no filter, an empty one, one on the string column, one on the foreign key
Filters ==
  { [given |-> FALSE, clauses |-> <<>>],
    [given |-> TRUE, clauses |-> <<>>],
    [given |-> TRUE,
     clauses |-> <<[property |-> [name |-> "title", type |-> "string"], value |-> <<"a">>]>>],
    [given |-> TRUE,
     clauses |-> <<[property |-> [name |-> "userId", type |-> AttributeOf("userId").type],
                    value |-> <<"4">>]>>] }

\* the params of the writes of other requests: the columns a write changes
ConcurrentParams == {params \in ParamsSet : DOMAIN params \subseteq {"title", "userId"}}

SortFields == {"id", "title", "name", "undefined"}

\* ---- the calls

\* the variables of a specification that does not use them
FilterIdle ==
  /\ filterGiven = FALSE
  /\ filter = <<>>
  /\ where = EmptyObject
  /\ fpc = "idle"

LikeIdle ==
  /\ likeValue = <<>>
  /\ likeColumn = <<>>
  /\ likeWhere = EmptyObject
  /\ likeMatch = FALSE
  /\ lpc = "idle"

CallIdle ==
  /\ pc = "idle"
  /\ op = "none"
  /\ argId = 0
  /\ argParams = EmptyObject
  /\ givenParams = EmptyObject
  /\ argFilter = [given |-> FALSE, clauses |-> <<>>]
  /\ argSortBy = "undefined"
  /\ issued = <<>>
  /\ storageError = NoError
  /\ existed = FALSE
  /\ interfered = FALSE
  /\ result = NoResult

ResourceInit ==
  /\ rawAttributes \in Schemas
  /\ store = EmptyObject
  /\ CallIdle

\* the Resource of a specification that calls none of its methods
ResourceIdle ==
  /\ rawAttributes = <<>>
  /\ store = EmptyObject
  /\ CallIdle

\* create(params), to its await of SequelizeModel.create
CreateCall ==
  /\ pc = "idle"
  /\ Cardinality(DOMAIN store) < MaxRows
  /\ \E params \in ParamsSet :
       LET parsed == parseParams(params)
       IN  /\ givenParams' = params
           /\ argParams' = parsed.params
           /\ issued' = <<[method |-> "create", values |-> parsed.parsedParams]>>
  /\ op' = "create"
  /\ pc' = "create:create"
  /\ UNCHANGED <<rawAttributes, store, argId, argFilter, argSortBy, storageError,
                 existed, interfered, result>>
  /\ UNCHANGED <<filterVars, likeVars>>

\* SequelizeModel.create settles, and create returns or throws
CreateSettle ==
  /\ pc = "create:create"
  /\ LET values == issued[1].values
     IN  \/ \E error \in WriteFailures(values) :
              /\ storageError' = error
              /\ result' = Threw(rethrow(error))
              /\ UNCHANGED store
         \/ /\ WriteAccepted(values)
            /\ LET record == InsertedRow(FreeId, values)
               IN  /\ store' = [i \in DOMAIN store \cup {record.id} |->
                                  IF i = record.id THEN record ELSE store[i]]
                   /\ result' = Returned(record)
            /\ UNCHANGED storageError
  /\ pc' = "done"
  /\ UNCHANGED <<rawAttributes, op, argId, argParams, givenParams, argFilter, argSortBy,
                 issued, existed, interfered>>
  /\ UNCHANGED <<filterVars, likeVars>>

\* update(id, params), to its await of SequelizeModel.update
UpdateCall ==
  /\ pc = "idle"
  /\ \E id \in 1..MaxRows, params \in ParamsSet :
       LET parsed == parseParams(params)
       IN  /\ argId' = id
           /\ existed' = (id \in DOMAIN store)
           /\ givenParams' = params
           /\ argParams' = parsed.params
           /\ issued' = <<[method |-> "update", values |-> parsed.parsedParams, id |-> id]>>
  /\ op' = "update"
  /\ pc' = "update:update"
  /\ UNCHANGED <<rawAttributes, store, argFilter, argSortBy, storageError, interfered, result>>
  /\ UNCHANGED <<filterVars, likeVars>>

\* update without the where of its SequelizeModel.update: every row is written
UpdateWriteNoWhere ==
  /\ pc = "update:update"
  /\ WriteAccepted(issued[1].values)
  /\ store' = [i \in DOMAIN store |-> UpdatedRow(store[i], issued[1].values)]
  /\ issued' = Append(issued, [method |-> "findByPk", id |-> argId])
  /\ pc' = "update:findById"
  /\ UNCHANGED <<storageError, result>>
  /\ UNCHANGED <<rawAttributes, op, argId, argParams, givenParams, argFilter, argSortBy,
                 existed, interfered>>
  /\ UNCHANGED <<filterVars, likeVars>>

\* SequelizeModel.update settles: update throws, or goes on to findById(id)
UpdateWrite ==
  /\ pc = "update:update"
  /\ LET values == issued[1].values
     IN  \/ \E error \in WriteFailures(values) :
              /\ storageError' = error
              /\ result' = Threw(rethrow(error))
              /\ pc' = "done"
              /\ UNCHANGED <<store, issued>>
         \/ /\ WriteAccepted(values)
            /\ store' = StoreAfterUpdate(argId, values)
            /\ issued' = Append(issued, [method |-> "findByPk", id |-> argId])
            /\ pc' = "update:findById"
            /\ UNCHANGED <<storageError, result>>
  /\ UNCHANGED <<rawAttributes, op, argId, argParams, givenParams, argFilter, argSortBy,
                 existed, interfered>>
  /\ UNCHANGED <<filterVars, likeVars>>

\* findById settles: update returns record.toJSON(), or throws what findById
\* threw, or the TypeError of null.toJSON()
UpdateReadBack ==
  /\ pc = "update:findById"
  /\ \/ /\ storageError' = ConnectionError
        /\ result' = Threw(rethrow(ConnectionError))
     \/ /\ argId \in DOMAIN store
        /\ result' = Returned(store[argId])
        /\ UNCHANGED storageError
     \/ /\ argId \notin DOMAIN store
        /\ result' = Threw(rethrow(TypeError))
        /\ UNCHANGED storageError
  /\ pc' = "done"
  /\ UNCHANGED <<rawAttributes, store, op, argId, argParams, givenParams, argFilter,
                 argSortBy, issued, existed, interfered>>
  /\ UNCHANGED <<filterVars, likeVars>>

\* find with the test of the sort field's DataType left out
findThrowsNoVirtualTest(sortBy) ==
  IF sortBy \notin AttributeNames THEN TypeError ELSE NoError

\* what find throws before it queries: the TypeError of reading .type of a
\* field the model has not, the error naming a VIRTUAL field, or nothing
findThrows(sortBy) ==
  IF sortBy \notin AttributeNames THEN TypeError
  ELSE IF AttributeOf(sortBy).isVirtual
    THEN [name |-> "Error",
          message |-> <<"Cannot sort on VIRTUAL Datatype", sortBy, "on resource", ModelName>>]
    ELSE NoError

ToUpperCase(direction) == IF direction = "desc" THEN "DESC" ELSE "ASC"

\* find(filter, { sort: { sortBy, direction } }), to its await of findAll
FindCall ==
  /\ pc = "idle"
  /\ \E f \in Filters, sortBy \in SortFields, direction \in {"undefined", "asc", "desc"} :
       /\ argFilter' = f
       /\ argSortBy' = sortBy
       /\ IF findThrows(sortBy) # NoError
            THEN /\ result' = Threw(findThrows(sortBy))
                 /\ pc' = "done"
                 /\ issued' = <<>>
            ELSE /\ issued' = <<[method |-> "findAll",
                                 where |-> convertFilter(f.given, f.clauses),
                                 limit |-> 20, offset |-> 0,
                                 order |-> <<sortBy,
                                             ToUpperCase(IF direction = "undefined"
                                                           THEN "asc" ELSE direction)>>]>>
                 /\ pc' = "find:findAll"
                 /\ UNCHANGED result
  /\ op' = "find"
  /\ UNCHANGED <<rawAttributes, store, argId, argParams, givenParams, storageError,
                 existed, interfered>>
  /\ UNCHANGED <<filterVars, likeVars>>

\* findAll settles: find returns a record for each row selected, or throws
\* what findAll threw
FindSettle ==
  /\ pc = "find:findAll"
  /\ \/ /\ storageError' = ConnectionError
        /\ result' = Threw(ConnectionError)
     \/ /\ result' = Returned(Selected(issued[1].where))
        /\ UNCHANGED storageError
  /\ pc' = "done"
  /\ UNCHANGED <<rawAttributes, store, op, argId, argParams, givenParams, argFilter,
                 argSortBy, issued, existed, interfered>>
  /\ UNCHANGED <<filterVars, likeVars>>

\* count(filter), to its await of SequelizeModel.count
CountCall ==
  /\ pc = "idle"
  /\ \E f \in Filters :
       /\ argFilter' = f
       /\ issued' = <<[method |-> "count", where |-> convertFilter(f.given, f.clauses)]>>
  /\ op' = "count"
  /\ pc' = "count:count"
  /\ UNCHANGED <<rawAttributes, store, argId, argParams, givenParams, argSortBy,
                 storageError, existed, interfered, result>>
  /\ UNCHANGED <<filterVars, likeVars>>

CountSettle ==
  /\ pc = "count:count"
  /\ \/ /\ storageError' = ConnectionError
        /\ result' = Threw(ConnectionError)
     \/ /\ result' = Returned(Cardinality(Selected(issued[1].where)))
        /\ UNCHANGED storageError
  /\ pc' = "done"
  /\ UNCHANGED <<rawAttributes, store, op, argId, argParams, givenParams, argFilter,
                 argSortBy, issued, existed, interfered>>
  /\ UNCHANGED <<filterVars, likeVars>>

\* the caller takes the result; the Resource serves the next call
Return ==
  /\ pc = "done"
  /\ pc' = "idle"
  /\ op' = "none"
  /\ argId' = 0
  /\ argParams' = EmptyObject
  /\ givenParams' = EmptyObject
  /\ argFilter' = [given |-> FALSE, clauses |-> <<>>]
  /\ argSortBy' = "undefined"
  /\ issued' = <<>>
  /\ storageError' = NoError
  /\ existed' = FALSE
  /\ interfered' = FALSE
  /\ result' = NoResult
  /\ UNCHANGED <<rawAttributes, store>>
  /\ UNCHANGED <<filterVars, likeVars>>

\* another request's write reaches the record of an update under way
Interferes(id) == pc \in {"update:update", "update:findById"} /\ id = argId

\* delete(id) of another request: SequelizeModel.destroy
DeleteCall ==
  /\ \E id \in DOMAIN store :
       /\ store' = [i \in DOMAIN store \ {id} |-> store[i]]
       /\ interfered' = (interfered \/ Interferes(id))
  /\ UNCHANGED <<rawAttributes, pc, op, argId, argParams, givenParams, argFilter,
                 argSortBy, issued, storageError, existed, result>>
  /\ UNCHANGED <<filterVars, likeVars>>

\* update(id, params) of another request, whose SequelizeModel.update is
\* applied between this call's update and its read-back (applied at any
\* other moment, it is an update that came before or after this call)
ConcurrentUpdate ==
  /\ pc = "update:findById"
  /\ \E id \in DOMAIN store, params \in ConcurrentParams :
       LET values == parseParams(params).parsedParams
       IN  /\ WriteAccepted(values)
           /\ store' = StoreAfterUpdate(id, values)
           /\ interfered' = (interfered \/ Interferes(id))
  /\ UNCHANGED <<rawAttributes, pc, op, argId, argParams, givenParams, argFilter,
                 argSortBy, issued, storageError, existed, result>>
  /\ UNCHANGED <<filterVars, likeVars>>

Next ==
  \/ CreateCall \/ CreateSettle
  \/ UpdateCall \/ UpdateWrite \/ UpdateReadBack
  \/ FindCall \/ FindSettle
  \/ CountCall \/ CountSettle
  \/ DeleteCall \/ ConcurrentUpdate
  \/ Return

Init == ResourceInit /\ FilterIdle /\ LikeIdle

Spec == Init /\ [][Next]_vars

\* ------------------------------------------------- the filters of SpecFilter

\* the properties a filter may name (Property.name(), Property.type())
FilterProperties ==
  { [name |-> "email", type |-> "string"],
    [name |-> "lastName", type |-> "string"],
    [name |-> "age", type |-> "number"],
    [name |-> "createdAt", type |-> "datetime"],
    [name |-> "birthday", type |-> "date"],
    [name |-> "isActive", type |-> "boolean"] }

Bounds == {Undefined, "", "2019-12-10"}

\* the values a clause on a property of the given type may carry: text for
\* the scalar types, an object with its from and to for the date types
ClauseValues(type) ==
  CASE type = "string" -> {<<"a">>, <<"a", ".", "b">>}
    [] type = "number" -> SeqsUpTo(NumAlphabet, MaxLen)
    [] type \in {"date", "datetime"} -> [from : Bounds, to : Bounds]
    [] OTHER -> {<<"t">>}

FilterInit ==
  /\ filterGiven \in BOOLEAN
  /\ filter = <<>>
  /\ where = EmptyObject
  /\ fpc = "build"

\* the caller adds a clause on a property the filter does not name yet (a
\* Filter holds its clauses under their property's path)
AddClause ==
  /\ fpc = "build"
  /\ filterGiven
  /\ Len(filter) < MaxClauses
  /\ \E property \in FilterProperties :
       /\ \A i \in 1..Len(filter) : filter[i].property.name # property.name
       /\ \E value \in ClauseValues(property.type) :
            filter' = Append(filter, [property |-> property, value |-> value])
  /\ UNCHANGED <<filterGiven, where, fpc, likeVars, resourceVars>>

ConvertFilter ==
  /\ fpc = "build"
  /\ where' = convertFilter(filterGiven, filter)
  /\ fpc' = "done"
  /\ UNCHANGED <<filterGiven, filter, likeVars, resourceVars>>

\* ------------------------------------------------- claims on convertFilter

IsDateType(type) == type \in {"date", "datetime"}
HasNoBound(value) == ~Truthy(value.from) /\ ~Truthy(value.to)

\* C1: a date or datetime clause whose value has neither a from nor a to
\* bound contributes nothing: the condition has no entry under the name of
\* its property.
C1_UnboundedDateClauseSkipped ==
  fpc = "done" =>
    \A i \in 1..Len(filter) :
      (IsDateType(filter[i].property.type) /\ HasNoBound(filter[i].value))
        => filter[i].property.name \notin DOMAIN where

\* the omission rules: an unparsable number, a date without bounds
Omitted(clause) ==
  \/ clause.property.type = "number" /\ NumberIsNaN(Number(clause.value))
  \/ IsDateType(clause.property.type) /\ HasNoBound(clause.value)

\* the predicate of the clause is part of the condition
PredicatePresent(clause, condition) ==
  LET name == clause.property.name
      type == clause.property.type
  IN  IF type = "string"
        THEN /\ OpAnd \in DOMAIN condition
             /\ \E j \in DOMAIN condition[OpAnd].preds :
                  condition[OpAnd].preds[j]
                    = LowerLike(name, <<"%">> \o escape(clause.value) \o <<"%">>)
        ELSE /\ name \in DOMAIN condition
             /\ condition[name] =
                  (CASE type = "number" ->
                          [kind |-> "number", num |-> Number(clause.value).num]
                     [] IsDateType(type) ->
                          [kind |-> "range", range |-> RangeOf(clause.value)]
                     [] OTHER -> [kind |-> "value", value |-> clause.value])

\* C2: when the clauses of a filter target pairwise different properties,
\* every clause the omission rules do not drop has its predicate in the
\* resulting conjunction, two or more string clauses included.
C2_NoPredicateLost ==
  fpc = "done" =>
    \A i \in 1..Len(filter) :
      ~Omitted(filter[i]) => PredicatePresent(filter[i], where)

\* C7: a number clause whose value coerces to a number puts an equality
\* predicate with the coerced number under the name of its property ("42"
\* gives 42); one whose value does not coerce is dropped, and the condition
\* has no entry under that name.
C7_NumberClause ==
  fpc = "done" =>
    \A i \in 1..Len(filter) :
      filter[i].property.type = "number" =>
        LET name == filter[i].property.name
            n == Number(filter[i].value)
        IN  /\ ~NumberIsNaN(n) =>
                 /\ name \in DOMAIN where
                 /\ where[name] = [kind |-> "number", num |-> n.num]
            /\ NumberIsNaN(n) => name \notin DOMAIN where
            /\ filter[i].value = <<"4", "2">> =>
                 (name \in DOMAIN where /\ where[name].num = 42)
            /\ (\E j \in 1..Len(filter[i].value) : filter[i].value[j] = "a")
                 => name \notin DOMAIN where

\* a filter whose second clause is a number clause with an unparsable value
\* has been converted: the clause is dropped and the first one is kept
C7_Witness ==
  /\ fpc = "done"
  /\ Len(filter) = 2
  /\ filter[2].property.type = "number"
  /\ filter[2].value = <<"a", "4">>
  /\ filter[1].property.name = "isActive"
  /\ DOMAIN where = {"isActive"}

FilterNext == AddClause \/ ConvertFilter

InitFilter == FilterInit /\ LikeIdle /\ ResourceIdle

SpecFilter == InitFilter /\ [][FilterNext]_vars

LikeInit ==
  /\ likeValue \in SeqsUpTo(LikeAlphabet, MaxValueLen)
  /\ likeColumn \in SeqsUpTo(LikeAlphabet, MaxColumnLen)
  /\ likeWhere = EmptyObject
  /\ likeMatch = FALSE
  /\ lpc = "input"

\* count() hands the storage convertFilter's condition for one string clause
LikeConvert ==
  /\ lpc = "input"
  /\ likeWhere' = convertFilter(TRUE, <<[property |-> [name |-> "email", type |-> "string"],
                                        value |-> likeValue]>>)
  /\ lpc' = "converted"
  /\ UNCHANGED <<likeValue, likeColumn, likeMatch, filterVars, resourceVars>>

\* the storage decides whether the row is one of those the condition selects
LikeSelect ==
  /\ lpc = "converted"
  /\ likeMatch' = (\A j \in DOMAIN likeWhere[OpAnd].preds :
                     SatisfiesLowerLike(likeWhere[OpAnd].preds[j], likeColumn))
  /\ lpc' = "matched"
  /\ UNCHANGED <<likeValue, likeColumn, likeWhere, filterVars, resourceVars>>

LikeNext == LikeConvert \/ LikeSelect

InitLike == LikeInit /\ FilterIdle /\ ResourceIdle

SpecLike == InitLike /\ [][LikeNext]_vars

\* C8: a string clause selects exactly the rows whose column, compared in
\* lower case, contains the value as a literal substring; no character of
\* the value acts as a pattern wildcard.
C8_LiteralSubstring ==
  lpc = "matched" => (likeMatch <=> Includes(LOWER(likeColumn), LOWER(likeValue)))

\* --------------------------------------------------- claims on the Resource

\* create or update is under way or done: issued[1] is its write
Writing == op \in {"create", "update"} /\ pc # "idle"
SentValues == issued[1].values

\* C3: on every create and update, the values handed to the storage's create
\* or update hold no key of a declared property whose isEditable() is false,
\* whatever the caller supplied for it.
C3_ReadOnlyKeysNeverSent ==
  Writing =>
    \A i \in 1..Len(properties) :
      ~properties[i].isEditable => properties[i].name \notin DOMAIN SentValues

\* an update whose params set the primary key was accepted by the storage,
\* which was handed the title and not the id
C3_Witness ==
  /\ op = "update"
  /\ pc = "update:findById"
  /\ Get(givenParams, "id") = <<"4">>
  /\ DOMAIN SentValues = {"title"}

\* C4: on every create and update, the key of a number, float or reference
\* property supplied as the empty string is not among the values handed to
\* the storage; the storage reports no unparsable number for that field, and
\* a record created this way holds null in that (editable) field.
C4_EmptyNumberNeverSent ==
  Writing =>
    \A i \in 1..Len(properties) :
      LET p == properties[i]
      IN  (p.type \in EmptiableTypes /\ Get(givenParams, p.name) = <<>>) =>
            /\ p.name \notin DOMAIN SentValues
            /\ storageError.name = "SequelizeDatabaseError"
                 => p.name \notin storageError.errors
            /\ (op = "create" /\ pc = "done" /\ result.status = "returned" /\ p.isEditable)
                 => /\ result.value[p.name] = Null
                    /\ result.value.id \in DOMAIN store
                         => store[result.value.id][p.name] = Null

\* a record was created from a title and an empty userId: its userId is null
C4_Witness ==
  /\ op = "create"
  /\ pc = "done"
  /\ result.status = "returned"
  /\ Get(givenParams, "userId") = <<>>
  /\ Get(givenParams, "title") = <<"a">>
  /\ result.value.userId = Null
  /\ result.value.title = <<"a">>

\* C5: when the storage fails a create or an update, the call throws: a
\* ValidationError built from the failure when the failure is a
\* SequelizeValidationError, and else the very error of the storage; it
\* returns no record.
C5_StorageFailureThrown ==
  (op \in {"create", "update"} /\ pc = "done" /\ storageError # NoError) =>
    /\ result.status = "threw"
    /\ IF storageError.name = SEQUELIZE_VALIDATION_ERROR
         THEN /\ result.value.name = "ValidationError"
              /\ DOMAIN result.value.propertyErrors = storageError.errors
         ELSE result.value = storageError

\* an update the validators rejected threw a ValidationError for the title
C5_Witness ==
  /\ op = "update"
  /\ pc = "done"
  /\ storageError.name = SEQUELIZE_VALIDATION_ERROR
  /\ result.status = "threw"
  /\ result.value.name = "ValidationError"
  /\ DOMAIN result.value.propertyErrors = {"title"}

\* C6: a find asked to sort by a VIRTUAL field throws an error naming the
\* field and the resource, and has issued no storage call: no findAll is
\* made in that invocation.
C6_VirtualSortThrowsBeforeQuery ==
  (op = "find" /\ argSortBy \in AttributeNames /\ AttributeOf(argSortBy).isVirtual) =>
    /\ pc = "done"
    /\ issued = <<>>
    /\ result.status = "threw"
    /\ result.value.name = "Error"
    /\ \E i, j \in DOMAIN result.value.message :
         result.value.message[i] = argSortBy /\ result.value.message[j] = ModelName

\* a find sorted by the computed field name, on a table that holds a row
C6_Witness ==
  /\ op = "find"
  /\ argSortBy = "name"
  /\ pc = "done"
  /\ store # EmptyObject
  /\ result.status = "threw"

\* the key is one parseParams removes
Removed(key, params) ==
  /\ key \in AttributeNames
  /\ \/ ~AttributeOf(key).isEditable
     \/ AttributeOf(key).type \in EmptiableTypes /\ params[key] = <<>>

\* C9: parseParams changes nothing but the keys it removes: a key that is no
\* declared property, or that of an editable property not an empty-string
\* number, float or reference, comes out with its value; no key is added;
\* the caller's params object is as it was.
C9_OnlyRemovals ==
  Writing =>
    /\ argParams = givenParams
    /\ DOMAIN SentValues \subseteq DOMAIN givenParams
    /\ \A k \in DOMAIN givenParams :
         ~Removed(k, givenParams) =>
           (k \in DOMAIN SentValues /\ SentValues[k] = givenParams[k])

\* a create whose params hold an unknown key, an editable one, the primary
\* key and an empty foreign key sent the first two
C9_Witness ==
  /\ op = "create"
  /\ pc = "create:create"
  /\ DOMAIN givenParams = {"extra", "title", "id", "userId"}
  /\ givenParams["userId"] = <<>>
  /\ DOMAIN SentValues = {"extra", "title"}

\* C10, as claimed: an update of a record that existed, with params the
\* storage accepted, returns the record with, in every editable field the
\* params supplied, the value supplied.
C10_ReturnsEverySuppliedValue ==
  (op = "update" /\ pc = "done" /\ existed /\ Len(issued) = 2
     /\ result.status = "returned") =>
    \A k \in DOMAIN givenParams \cap AttributeNames :
      AttributeOf(k).isEditable => result.value[k] = givenParams[k]

\* the update has come back undisturbed: the record existed, the storage
\* accepted the write and the read-back, and no other request wrote the
\* record meanwhile
UndisturbedUpdate ==
  /\ op = "update"
  /\ pc = "done"
  /\ existed
  /\ Len(issued) = 2
  /\ storageError = NoError
  /\ ~interfered

UpdateReturnsKeptValues ==
  UndisturbedUpdate =>
    /\ issued[1].method = "update"
    /\ issued[1].id = argId
    /\ issued[2] = [method |-> "findByPk", id |-> argId]
    /\ result.status = "returned"
    /\ result.value.id = argId
    /\ \A k \in DOMAIN givenParams :
         ~Removed(k, givenParams) /\ k \in AttributeNames =>
           result.value[k] = givenParams[k]

\* the step in which the storage applies update's write
UpdateApplied == pc = "update:update" /\ pc' = "update:findById"

\* C10, amended: an undisturbed update first writes the normalized params to
\* the record whose primary key is id, leaving every other record as it was,
\* then reads that record back and returns it; the record returned holds the
\* supplied value in every editable field that normalization kept.
C10_UpdateWritesThenReadsBack ==
  /\ [](UpdateReturnsKeptValues)
  /\ [][UpdateApplied =>
          /\ DOMAIN store' = DOMAIN store
          /\ \A j \in DOMAIN store \ {argId} : store'[j] = store[j]]_vars

\* an update of the second record's title and userId has returned it, the
\* first record being as it was
C10_Witness ==
  /\ UndisturbedUpdate
  /\ argId = 2
  /\ DOMAIN store = {1, 2}
  /\ Get(givenParams, "title") = <<"a">>
  /\ Get(givenParams, "userId") = <<"4">>
  /\ result.value.title = <<"a">>
  /\ result.value.userId = <<"4">>
  /\ store[1].title = Null

====
